---- MODULE Spec2Model ----
(***************************************************************************)
(* A model of the LDAP connection pool of src/ldapool.go: LdapConnPool     *)
(* with GetConnection, PutConnection, createConnection, the cleanup loop   *)
(* and Close, run by a bounded number of concurrent callers, and the       *)
(* default pool behind Open / InitDefault.                                 *)
(*                                                                         *)
(* Granularity.  Every read or write of an atomic (openConn, closed) that  *)
(* happens outside the mutex is a step of its own.  A critical section     *)
(* (mu.Lock() ... mu.Unlock()) is one step, taken when the mutex is free:  *)
(* everything it reads and writes is either protected by the mutex or is   *)
(* an atomic add that commutes with the adds done outside the mutex.  The  *)
(* mutex stays held only when the section cannot finish (a send that       *)
(* blocks).  A panic of any goroutine ends the whole process.              *)
(***************************************************************************)
EXTENDS Integers, Sequences, FiniteSets, TLC

\* ---------------------------------------------------------------- bounds
NumCallers == 3          \* goroutines that use the pool
NumRacing  == 2          \* of them, those that run in the full specification
MaxConns   == 2          \* connections the factory can create in one run
MaxTime    == 2          \* the clock runs 0..MaxTime
MaxOpenCfg == 2          \* configured MaxOpen ranges over 1..MaxOpenCfg
MaxIdleCfg == 1          \* configured MaxIdle ranges over 1..MaxIdleCfg
MaxAgain   == 1          \* releases of an already released connection
MaxOutside == 9          \* connections leased to goroutines not modelled
MaxDuration == 3         \* the largest time.Duration (an int64 in Go)

Callers == 1..NumCallers
Racing  == 1..NumRacing
ConnIds == 1..MaxConns
NoConn  == 0             \* the nil *LdapConn

\* ------------------------------------------------------ program constants
DefaultMaxOpen == 10
DefaultMaxIdle == 5
\* time.Hour and 30*time.Minute in the model's clock unit (30 minutes)
DefaultConnMaxLifetime == 2
DefaultConnMaxIdleTime == 1

VARIABLES
  config,       \* lcp.config after setDefaults
  conns,        \* lcp.conns: the idle list, a sequence of connection ids
  reqConns,     \* lcp.reqConns: [isNil, keys]; a key is the waiting caller
  chans,        \* the channel made by each caller's waiting GetConnection
  openConn,     \* lcp.openConn
  closed,       \* lcp.closed (0 or 1)
  cleanupOnce,  \* lcp.cleanupOnce has run
  stopCleanup,  \* number of close(lcp.stopCleanup) executed
  mu,           \* lcp.mu: 0 when free, else the goroutine stuck holding it
  conn,         \* every LdapConn: socket state, createdAt, lastUsed
  now,          \* time.Now()
  reaper,       \* position of the cleanup goroutine
  pc,           \* position of each caller
  arg,          \* the connection a caller's PutConnection is releasing
  ctx,          \* the context of a caller's GetConnection
  held,         \* connections leased to each caller
  ret,          \* what the step just taken returned to its caller
  closeOK,      \* number of Close calls that returned nil
  again,        \* number of releases of an already released connection
  shut,         \* the sockets the step just taken closed, and where
  defaultPool,     \* the package variable defaultPool: "nil" or "pool"
  defaultInitOnce, \* the package variable defaultInitOnce
  conf,            \* the LdapConfig argument of each caller's Open
  newPools         \* number of NewPool calls made

vars == <<config, conns, reqConns, chans, openConn, closed, cleanupOnce,
          stopCleanup, mu, conn, now, reaper, pc, arg, ctx, held, ret,
          closeOK, again, shut, defaultPool, defaultInitOnce, conf, newPools>>

\* ------------------------------------------------------------ LdapConfig
\* setDefaults: a non-positive numeric field takes its default.
setDefaults(c) ==
  [c EXCEPT
     !.MaxOpen         = IF @ <= 0 THEN DefaultMaxOpen ELSE @,
     !.MaxIdle         = IF @ <= 0 THEN DefaultMaxIdle ELSE @,
     !.ConnMaxLifetime = IF @ <= 0 THEN DefaultConnMaxLifetime ELSE @,
     !.ConnMaxIdleTime = IF @ <= 0 THEN DefaultConnMaxIdleTime ELSE @]

\* Variant: validateConfig does not look at AdminPass.
validateConfigNoPass(c) ==
  IF c.Url = "" \/ c.AdminDN = "" THEN "ErrInvalidConfig" ELSE "nil"

\* validateConfig: the error returned, "nil" when the three required fields
\* are non-empty.
validateConfig(c) ==
  IF c.Url = "" \/ c.AdminDN = "" \/ c.AdminPass = ""
  THEN "ErrInvalidConfig" ELSE "nil"

\* The zero LdapConfig.
NoConfig ==
  [Url |-> "", AdminDN |-> "", AdminPass |-> "", MaxOpen |-> 0, MaxIdle |-> 0,
   ConnMaxLifetime |-> 0, ConnMaxIdleTime |-> 0]

\* The configurations handed to NewPool.
ConfigInputs ==
  [Url : {"ldap://host"}, AdminDN : {"cn=admin"}, AdminPass : {"secret"},
   MaxOpen : 1..MaxOpenCfg, MaxIdle : 1..MaxIdleCfg,
   ConnMaxLifetime : {0}, ConnMaxIdleTime : {0}]

\* -------------------------------------------------------------- LdapConn
NoneConn == [state |-> "none", createdAt |-> 0, lastUsed |-> 0]

\* ldap.Conn.IsClosing: the socket was closed by the pool or died.
IsClosing(lc) == lc.state \in {"dead", "closed"}

\* time.Time.Sub: the difference as a Duration; a difference that does not
\* fit in a Duration comes out as the largest or the smallest Duration.
Sub(t, u) ==
  IF t - u > MaxDuration THEN MaxDuration
  ELSE IF t - u < 0 - MaxDuration - 1 THEN 0 - MaxDuration - 1
  ELSE t - u

\* Variant: a connection expires on reaching its threshold.
IsExpiredAtThreshold(lc, maxLifetime, maxIdleTime, t) ==
  \/ maxLifetime > 0 /\ Sub(t, lc.createdAt) >= maxLifetime
  \/ maxIdleTime > 0 /\ Sub(t, lc.lastUsed) >= maxIdleTime

\* LdapConn.IsExpired
IsExpired(lc, maxLifetime, maxIdleTime, t) ==
  \/ maxLifetime > 0 /\ Sub(t, lc.createdAt) > maxLifetime
  \/ maxIdleTime > 0 /\ Sub(t, lc.lastUsed) > maxIdleTime

\* Variant: the validity test does not look at the connection's age.
UsableWhateverAge(lc, t) == ~IsClosing(lc)

\* The validity test of the idle scan, of the idle push and of the sweep.
Usable(lc, t) ==
  /\ ~IsClosing(lc)
  /\ ~IsExpired(lc, config.ConnMaxLifetime, config.ConnMaxIdleTime, t)

\* ldap.Conn.Close
SockClose(cn, k) == [cn EXCEPT ![k].state = "closed"]

Range(q) == {q[i] : i \in DOMAIN q}

\* The step taken called Conn.Close() on no connection of the pool.
NoShut == [by |-> "none", ids |-> {}]

\* The step taken called Conn.Close() on the connections ids; by names the
\* place of the call: "scan" (GetConnection's idle scan), "PutClosed"
\* (PutConnection on a closed pool), "Put" (PutConnection's last branch),
\* "cleanup" (the reaper's sweep), "Close".
Shut(by, ids) == IF ids = {} THEN NoShut ELSE [by |-> by, ids |-> ids]

\* A fresh channel: make(chan *LdapConn, 1)
NewChan == [buf |-> <<>>, closed |-> FALSE]
ChanCap == 1

Crashed == \E c \in Callers : pc[c] = "panic"
Running == ~Crashed

\* A call of caller c returned: the operation, the connection returned (for
\* PutConnection, which returns nothing, the connection released), the error.
Return(c, op, k, err) == [who |-> c, op |-> op, conn |-> k, err |-> err]

\* The step taken was not the return of a call.
NoReturn == [who |-> 0, op |-> "none", conn |-> NoConn, err |-> "none"]

\* ---------------------------------------------------------------- NewPool
\* Variant: createConnection does not count the connection it made.
createConnectionNoCount(oc) == oc

\* createConnection ends with atomic.AddInt32(&lcp.openConn, 1).
createConnectionCount(oc) == oc + 1

\* NewPool: the test connection is made by createConnection and then its
\* socket is closed directly; the pool keeps no reference to it.
NewPoolOpenConn == createConnectionCount(0)

\* The pool NewPool has returned for a valid configuration.
Init ==
  /\ config \in {setDefaults(c) :
                   c \in {d \in ConfigInputs : validateConfig(d) = "nil"}}
  /\ conns = <<>>
  /\ reqConns = [isNil |-> FALSE, keys |-> {}]
  /\ chans = [c \in Callers |-> NewChan]
  /\ openConn = NewPoolOpenConn
  /\ closed = 0
  /\ cleanupOnce = FALSE
  /\ stopCleanup = 0
  /\ mu = 0
  /\ conn = [k \in ConnIds |-> NoneConn]
  /\ now = 0
  /\ reaper = "running"
  /\ pc = [c \in Callers |-> "idle"]
  /\ arg = [c \in Callers |-> NoConn]
  /\ ctx = [c \in Callers |-> "none"]
  /\ held = [c \in Callers |-> {}]
  /\ ret = NoReturn
  /\ closeOK = 0
  /\ again = 0
  /\ shut = NoShut
  /\ defaultPool = "nil"
  /\ defaultInitOnce = "fresh"
  /\ conf = [c \in Callers |-> NoConfig]
  /\ newPools = 1

\* ----------------------------------------------------------- GetConnection
\* nextRequestKeyLocked: a key that is not in the waiter map.  The key of a
\* waiting call is modelled by its caller, whose previous key is gone from
\* the map by the time that call returned.
nextRequestKeyLocked(self) == self

\* Variant: the idle scan returns a usable connection and leaves it in the
\* list.
RECURSIVE ScanIdleKeeps(_, _, _, _)
ScanIdleKeeps(cs, cn, oc, t) ==
  IF cs = <<>>
  THEN [conns |-> cs, conn |-> cn, openConn |-> oc, got |-> NoConn]
  ELSE LET k    == cs[Len(cs)]
           rest == SubSeq(cs, 1, Len(cs) - 1)
       IN  IF Usable(cn[k], t)
           THEN [conns |-> cs, conn |-> [cn EXCEPT ![k].lastUsed = t],
                 openConn |-> oc, got |-> k]
           ELSE ScanIdleKeeps(rest, SockClose(cn, k), oc - 1, t)

\* Variant: the idle scan pops from the head of the list.
RECURSIVE ScanIdleFromHead(_, _, _, _)
ScanIdleFromHead(cs, cn, oc, t) ==
  IF cs = <<>>
  THEN [conns |-> cs, conn |-> cn, openConn |-> oc, got |-> NoConn]
  ELSE LET k    == Head(cs)
           rest == Tail(cs)
       IN  IF Usable(cn[k], t)
           THEN [conns |-> rest, conn |-> [cn EXCEPT ![k].lastUsed = t],
                 openConn |-> oc, got |-> k]
           ELSE ScanIdleFromHead(rest, SockClose(cn, k), oc - 1, t)

\* The idle scan of GetConnection: pop from the tail; the first connection
\* that is neither closing nor expired is taken and its lastUsed refreshed;
\* every other one is closed and counted out of openConn.
RECURSIVE ScanIdle(_, _, _, _)
ScanIdle(cs, cn, oc, t) ==
  IF cs = <<>>
  THEN [conns |-> cs, conn |-> cn, openConn |-> oc, got |-> NoConn]
  ELSE LET k    == cs[Len(cs)]
           rest == SubSeq(cs, 1, Len(cs) - 1)
       IN  IF Usable(cn[k], t)
           THEN [conns |-> rest, conn |-> [cn EXCEPT ![k].lastUsed = t],
                 openConn |-> oc, got |-> k]
           ELSE ScanIdle(rest, SockClose(cn, k), oc - 1, t)

\* Variant: the admission test is off by one.
SaturatedOffByOne(currentOpen, maxOpen) == currentOpen + 1 >= maxOpen

\* Variant: every call that finds no usable idle connection waits.
SaturatedAlways(currentOpen, maxOpen) == TRUE

\* The admission test: the pool is saturated, the caller must wait.
Saturated(currentOpen, maxOpen) == currentOpen >= maxOpen

\* Variant: GetConnection does not look at the closed flag.
GetSeesClosedNever(flag) == FALSE

\* GetConnection's test atomic.LoadInt32(&lcp.closed) == 1
GetSeesClosed(flag) == flag = 1

\* GetConnection, first statement: the load of the closed flag.
GetEnter(self) ==
  /\ Running
  /\ pc[self] = "idle"
  /\ \E cx \in {"live", "Canceled"} :
       IF GetSeesClosed(closed)
       THEN /\ ret' = Return(self, "GetConnection", NoConn, "ErrPoolClosed")
            /\ UNCHANGED <<pc, ctx>>
       ELSE /\ pc' = [pc EXCEPT ![self] = "g_lock"]
            /\ ctx' = [ctx EXCEPT ![self] = cx]
            /\ ret' = NoReturn
  /\ again' = again
  /\ shut' = NoShut
  /\ UNCHANGED <<defaultPool, defaultInitOnce, conf, newPools, config, conns, reqConns, chans, openConn, closed,
                 cleanupOnce, stopCleanup, mu, conn, now, reaper, arg, held,
                 closeOK>>

\* GetConnection, the critical section: idle scan, then wait or create.
GetLocked(self) ==
  /\ Running
  /\ pc[self] = "g_lock"
  /\ mu = 0
  /\ LET r == ScanIdle(conns, conn, openConn, now) IN
       /\ conns' = r.conns
       /\ conn' = r.conn
       /\ openConn' = r.openConn
       /\ shut' = Shut("scan", Range(conns) \ (Range(r.conns) \cup {r.got}))
       /\ IF r.got # NoConn
          THEN \* an idle connection is returned
               /\ held' = [held EXCEPT ![self] = @ \cup {r.got}]
               /\ pc' = [pc EXCEPT ![self] = "idle"]
               /\ ctx' = [ctx EXCEPT ![self] = "none"]
               /\ ret' = Return(self, "GetConnection", r.got, "nil")
               /\ UNCHANGED <<reqConns, chans>>
          ELSE IF Saturated(r.openConn, config.MaxOpen)
          THEN IF reqConns.isNil
               THEN \* assignment to an entry of a nil map
                    /\ pc' = [pc EXCEPT ![self] = "panic"]
                    /\ ret' = NoReturn
                    /\ UNCHANGED <<reqConns, chans, held, ctx>>
               ELSE /\ reqConns' = [reqConns EXCEPT
                                      !.keys = @ \cup {nextRequestKeyLocked(self)}]
                    /\ chans' = [chans EXCEPT ![self] = NewChan]
                    /\ pc' = [pc EXCEPT ![self] = "g_wait"]
                    /\ ret' = NoReturn
                    /\ UNCHANGED <<held, ctx>>
          ELSE /\ pc' = [pc EXCEPT ![self] = "g_create"]
               /\ ret' = NoReturn
               /\ UNCHANGED <<reqConns, chans, held, ctx>>
  /\ again' = again
  /\ UNCHANGED <<defaultPool, defaultInitOnce, conf, newPools, config, closed, cleanupOnce, stopCleanup, mu, now, reaper,
                 arg, closeOK>>

\* The lowest connection id the factory has not used yet.
FreshIds == {k \in ConnIds : conn[k].state = "none"}
FreshId  == CHOOSE k \in FreshIds : \A j \in FreshIds : k <= j

\* createConnection succeeds: dial, bind, then count the connection.
CreateOK(self) ==
  /\ Running
  /\ pc[self] = "g_create"
  /\ FreshIds # {}
  /\ conn' = [conn EXCEPT ![FreshId] =
                [state |-> "open", createdAt |-> now, lastUsed |-> now]]
  /\ openConn' = createConnectionCount(openConn)
  /\ held' = [held EXCEPT ![self] = @ \cup {FreshId}]
  /\ pc' = [pc EXCEPT ![self] = "idle"]
  /\ ctx' = [ctx EXCEPT ![self] = "none"]
  /\ ret' = Return(self, "GetConnection", FreshId, "nil")
  /\ again' = again
  /\ shut' = NoShut
  /\ UNCHANGED <<defaultPool, defaultInitOnce, conf, newPools, config, conns, reqConns, chans, closed, cleanupOnce,
                 stopCleanup, mu, now, reaper, arg, closeOK>>

\* Variant: the connection is counted before the dial and a failed dial
\* does not take the count back.
createConnectionFailedCounts(oc) == oc + 1

\* The counter after a failed createConnection: every error return comes
\* before atomic.AddInt32(&lcp.openConn, 1), so the counter is not touched.
createConnectionFailed(oc) == oc

\* createConnection fails: the dial, StartTLS or bind error is returned.
CreateFail(self) ==
  /\ Running
  /\ pc[self] = "g_create"
  /\ openConn' = createConnectionFailed(openConn)
  /\ pc' = [pc EXCEPT ![self] = "idle"]
  /\ ctx' = [ctx EXCEPT ![self] = "none"]
  /\ ret' = Return(self, "GetConnection", NoConn, "ConnectFailed")
  /\ again' = again
  /\ shut' = NoShut
  /\ UNCHANGED <<defaultPool, defaultInitOnce, conf, newPools, config, conns, reqConns, chans, closed,
                 cleanupOnce, stopCleanup, mu, conn, now, reaper, arg, held,
                 closeOK>>

\* The caller's context is cancelled or reaches its deadline.  Only the
\* select of a waiting call reads the context.
CtxDone(self) ==
  /\ Running
  /\ pc[self] = "g_wait"
  /\ ctx[self] = "live"
  /\ \E e \in {"Canceled", "DeadlineExceeded"} :
       ctx' = [ctx EXCEPT ![self] = e]
  /\ ret' = NoReturn
  /\ again' = again
  /\ shut' = NoShut
  /\ UNCHANGED <<defaultPool, defaultInitOnce, conf, newPools, config, conns, reqConns, chans, openConn, closed,
                 cleanupOnce, stopCleanup, mu, conn, now, reaper, pc, arg,
                 held, closeOK>>

\* select, case conn := <-req: a value is in the channel, or the channel is
\* closed and the receive yields nil.  The call returns (conn, nil).
WaitRecv(self) ==
  /\ Running
  /\ pc[self] = "g_wait"
  /\ \/ /\ chans[self].buf # <<>>
        /\ LET k == Head(chans[self].buf) IN
             /\ held' = [held EXCEPT ![self] = @ \cup {k}]
             /\ ret' = Return(self, "GetConnection", k, "nil")
        /\ chans' = [chans EXCEPT ![self].buf = Tail(@)]
     \/ /\ chans[self].buf = <<>>
        /\ chans[self].closed
        /\ ret' = Return(self, "GetConnection", NoConn, "nil")
        /\ UNCHANGED <<held, chans>>
  /\ pc' = [pc EXCEPT ![self] = "idle"]
  /\ ctx' = [ctx EXCEPT ![self] = "none"]
  /\ again' = again
  /\ shut' = NoShut
  /\ UNCHANGED <<defaultPool, defaultInitOnce, conf, newPools, config, conns, reqConns, openConn, closed, cleanupOnce,
                 stopCleanup, mu, conn, now, reaper, arg, closeOK>>

\* select, case <-ctx.Done(): the call commits to the cancellation branch.
WaitCtx(self) ==
  /\ Running
  /\ pc[self] = "g_wait"
  /\ ctx[self] \in {"Canceled", "DeadlineExceeded"}
  /\ pc' = [pc EXCEPT ![self] = "g_cancel"]
  /\ ret' = NoReturn
  /\ again' = again
  /\ shut' = NoShut
  /\ UNCHANGED <<defaultPool, defaultInitOnce, conf, newPools, config, conns, reqConns, chans, openConn, closed,
                 cleanupOnce, stopCleanup, mu, conn, now, reaper, arg, ctx,
                 held, closeOK>>

\* Variant: the key stays in the map.
deleteNothing(keys, key) == keys

\* delete(lcp.reqConns, reqKey)
delete(keys, key) == keys \ {key}

\* The cancellation branch: delete(lcp.reqConns, reqKey) under the mutex
\* (a no-op on a nil map), then return ctx.Err().
WaitCancel(self) ==
  /\ Running
  /\ pc[self] = "g_cancel"
  /\ mu = 0
  /\ reqConns' = [reqConns EXCEPT !.keys = delete(@, self)]
  /\ ret' = Return(self, "GetConnection", NoConn, ctx[self])
  /\ pc' = [pc EXCEPT ![self] = "idle"]
  /\ ctx' = [ctx EXCEPT ![self] = "none"]
  /\ again' = again
  /\ shut' = NoShut
  /\ UNCHANGED <<defaultPool, defaultInitOnce, conf, newPools, config, conns, chans, openConn, closed, cleanupOnce,
                 stopCleanup, mu, conn, now, reaper, arg, held, closeOK>>

\* ----------------------------------------------------------- PutConnection
\* Variant: PutConnection does not look at the closed flag.
PutSeesClosedNever(flag) == FALSE

\* PutConnection's test atomic.LoadInt32(&lcp.closed) == 1
PutSeesClosed(flag) == flag = 1

\* Variant: PutConnection keeps every usable connection, whatever the
\* length of the idle list.
IdleHasRoomAlways(n, maxIdle) == TRUE

\* Variant: the room test is off by one.
IdleHasRoomOffByOne(n, maxIdle) == n <= maxIdle

\* The room test of the idle push: len(lcp.conns) < lcp.config.MaxIdle
IdleHasRoom(n, maxIdle) == n < maxIdle

\* PutConnection, first statement: on a closed pool the connection is
\* closed and counted out; otherwise the call goes on to take the mutex.
PutBegin(self, k) ==
  IF PutSeesClosed(closed)
  THEN /\ conn' = SockClose(conn, k)
       /\ openConn' = openConn - 1
       /\ ret' = Return(self, "PutConnection", k, "none")
       /\ shut' = Shut("PutClosed", {k})
       /\ UNCHANGED <<pc, arg>>
  ELSE /\ pc' = [pc EXCEPT ![self] = "p_lock"]
       /\ arg' = [arg EXCEPT ![self] = k]
       /\ ret' = NoReturn
       /\ shut' = NoShut
       /\ UNCHANGED <<conn, openConn>>

\* A caller releases a connection it holds: LdapConn.Close, PutConnection.
PutEnter(self) ==
  /\ Running
  /\ pc[self] = "idle"
  /\ \E k \in held[self] :
       /\ held' = [held EXCEPT ![self] = @ \ {k}]
       /\ PutBegin(self, k)
  /\ again' = again
  /\ UNCHANGED <<defaultPool, defaultInitOnce, conf, newPools, config, conns, reqConns, chans, closed, cleanupOnce,
                 stopCleanup, mu, now, reaper, ctx, closeOK>>

\* Variant: PutConnection does not look for a waiter.
HasWaitersNever(keys) == FALSE

\* PutConnection's test len(lcp.reqConns) > 0
HasWaiters(keys) == keys # {}

\* Variant: the handoff closes a dead or expired connection.
HandoffChecked(cn, k, t) ==
  IF Usable(cn[k], t) THEN [cn EXCEPT ![k].lastUsed = t] ELSE SockClose(cn, k)

\* The connection as the handoff sends it: conn.lastUsed = time.Now(), and
\* no look at its health or its age.
Handoff(cn, k, t) == [cn EXCEPT ![k].lastUsed = t]

\* PutConnection, the critical section: hand the connection to a waiter,
\* else keep it idle, else close it.
PutLocked(self) ==
  /\ Running
  /\ pc[self] = "p_lock"
  /\ mu = 0
  /\ LET k == arg[self] IN
       IF HasWaiters(reqConns.keys)
       THEN \E key \in reqConns.keys :
              /\ reqConns' = [reqConns EXCEPT !.keys = delete(@, key)]
              /\ conn' = Handoff(conn, k, now)
              /\ IF chans[key].closed
                 THEN \* send on a closed channel
                      /\ pc' = [pc EXCEPT ![self] = "panic"]
                      /\ ret' = NoReturn
                      /\ UNCHANGED <<chans, mu, arg>>
                 ELSE IF Len(chans[key].buf) >= ChanCap
                 THEN \* the send blocks while the mutex is held
                      /\ pc' = [pc EXCEPT ![self] = "p_blocked"]
                      /\ mu' = self
                      /\ ret' = NoReturn
                      /\ UNCHANGED <<chans, arg>>
                 ELSE /\ chans' = [chans EXCEPT ![key].buf = Append(@, k)]
                      /\ pc' = [pc EXCEPT ![self] = "idle"]
                      /\ arg' = [arg EXCEPT ![self] = NoConn]
                      /\ ret' = Return(self, "PutConnection", k, "none")
                      /\ UNCHANGED mu
              /\ shut' = NoShut
              /\ UNCHANGED <<conns, openConn>>
       ELSE /\ IF IdleHasRoom(Len(conns), config.MaxIdle) /\ Usable(conn[k], now)
               THEN /\ conn' = [conn EXCEPT ![k].lastUsed = now]
                    /\ conns' = Append(conns, k)
                    /\ shut' = NoShut
                    /\ UNCHANGED openConn
               ELSE /\ conn' = SockClose(conn, k)
                    /\ openConn' = openConn - 1
                    /\ shut' = Shut("Put", {k})
                    /\ UNCHANGED conns
            /\ pc' = [pc EXCEPT ![self] = "idle"]
            /\ arg' = [arg EXCEPT ![self] = NoConn]
            /\ ret' = Return(self, "PutConnection", k, "none")
            /\ UNCHANGED <<reqConns, chans, mu>>
  /\ again' = again
  /\ UNCHANGED <<defaultPool, defaultInitOnce, conf, newPools, config, closed, cleanupOnce, stopCleanup, now, reaper, ctx,
                 held, closeOK>>

\* Connections no caller holds and no PutConnection is releasing: a caller
\* that once leased one of them has released it already.
Released ==
  {k \in ConnIds : /\ conn[k].state # "none"
                   /\ \A c \in Callers : k \notin held[c] /\ arg[c] # k}

\* A caller calls LdapConn.Close again on a connection it already released.
PutAgain(self) ==
  /\ Running
  /\ pc[self] = "idle"
  /\ again < MaxAgain
  /\ again' = again + 1
  /\ \E k \in Released : PutBegin(self, k)
  /\ UNCHANGED <<defaultPool, defaultInitOnce, conf, newPools, config, conns, reqConns, chans, closed, cleanupOnce,
                 stopCleanup, mu, now, reaper, ctx, held, closeOK>>

\* ------------------------------------------------------------------- Close
\* Variant: a plain store of the flag in place of the compare-and-swap.
CompareAndSwapAlways(old) == TRUE

\* atomic.CompareAndSwapInt32(&lcp.closed, 0, 1) succeeds.
CompareAndSwapClosed(old) == old = 0

\* Close, first statements: the compare-and-swap of the closed flag, and on
\* success cleanupOnce.Do(close(stopCleanup)).
CloseEnter(self) ==
  /\ Running
  /\ pc[self] = "idle"
  /\ IF CompareAndSwapClosed(closed)
     THEN /\ closed' = 1
          /\ IF cleanupOnce
             THEN UNCHANGED <<cleanupOnce, stopCleanup>>
             ELSE /\ cleanupOnce' = TRUE
                  /\ stopCleanup' = stopCleanup + 1
          /\ pc' = [pc EXCEPT ![self] = "c_lock"]
          /\ ret' = NoReturn
     ELSE /\ ret' = Return(self, "Close", NoConn, "ErrPoolClosed")
          /\ UNCHANGED <<closed, cleanupOnce, stopCleanup, pc>>
  /\ again' = again
  /\ shut' = NoShut
  /\ UNCHANGED <<defaultPool, defaultInitOnce, conf, newPools, config, conns, reqConns, chans, openConn, mu, conn, now,
                 reaper, arg, ctx, held, closeOK>>

\* The sockets of all connections of a list are closed.
RECURSIVE CloseAll(_, _)
CloseAll(cs, cn) ==
  IF cs = <<>> THEN cn ELSE CloseAll(Tail(cs), SockClose(cn, Head(cs)))

\* Close, the critical section: close the idle connections, drop the idle
\* list, close every waiter's channel, drop the waiter map.
CloseLocked(self) ==
  /\ Running
  /\ pc[self] = "c_lock"
  /\ mu = 0
  /\ conn' = CloseAll(conns, conn)
  /\ shut' = Shut("Close", Range(conns))
  /\ conns' = <<>>
  /\ chans' = [c \in Callers |->
                 IF c \in reqConns.keys THEN [chans[c] EXCEPT !.closed = TRUE]
                 ELSE chans[c]]
  /\ reqConns' = [isNil |-> TRUE, keys |-> {}]
  /\ ret' = Return(self, "Close", NoConn, "nil")
  /\ closeOK' = closeOK + 1
  /\ pc' = [pc EXCEPT ![self] = "idle"]
  /\ again' = again
  /\ UNCHANGED <<defaultPool, defaultInitOnce, conf, newPools, config, openConn, closed, cleanupOnce, stopCleanup, mu, now,
                 reaper, arg, ctx, held>>

\* ------------------------------------------------------------------ reaper
\* Variant: the sweep collects the usable connections in reverse order.
RECURSIVE SweepIdleReversed(_, _, _, _)
SweepIdleReversed(cs, cn, oc, t) ==
  IF cs = <<>>
  THEN [conns |-> <<>>, conn |-> cn, openConn |-> oc]
  ELSE LET k == Head(cs) IN
       IF Usable(cn[k], t)
       THEN LET r == SweepIdleReversed(Tail(cs), cn, oc, t) IN
              [r EXCEPT !.conns = @ \o <<k>>]
       ELSE SweepIdleReversed(Tail(cs), SockClose(cn, k), oc - 1, t)

\* cleanupExpiredConnections: keep the usable idle connections in order,
\* close the others and count them out.
RECURSIVE SweepIdle(_, _, _, _)
SweepIdle(cs, cn, oc, t) ==
  IF cs = <<>>
  THEN [conns |-> <<>>, conn |-> cn, openConn |-> oc]
  ELSE LET k == Head(cs) IN
       IF Usable(cn[k], t)
       THEN LET r == SweepIdle(Tail(cs), cn, oc, t) IN
              [r EXCEPT !.conns = <<k>> \o @]
       ELSE SweepIdle(Tail(cs), SockClose(cn, k), oc - 1, t)

\* cleanup, case <-ticker.C
Sweep ==
  /\ Running
  /\ reaper = "running"
  /\ mu = 0
  /\ LET r == SweepIdle(conns, conn, openConn, now) IN
       /\ conns' = r.conns
       /\ conn' = r.conn
       /\ openConn' = r.openConn
       /\ shut' = Shut("cleanup", Range(conns) \ Range(r.conns))
  /\ ret' = NoReturn
  /\ again' = again
  /\ UNCHANGED <<defaultPool, defaultInitOnce, conf, newPools, config, reqConns, chans, closed, cleanupOnce, stopCleanup,
                 mu, now, reaper, pc, arg, ctx, held, closeOK>>

\* cleanup, case <-lcp.stopCleanup
ReaperStop ==
  /\ Running
  /\ reaper = "running"
  /\ stopCleanup > 0
  /\ reaper' = "stopped"
  /\ ret' = NoReturn
  /\ again' = again
  /\ shut' = NoShut
  /\ UNCHANGED <<defaultPool, defaultInitOnce, conf, newPools, config, conns, reqConns, chans, openConn, closed,
                 cleanupOnce, stopCleanup, mu, conn, now, pc, arg, ctx, held,
                 closeOK>>

\* ------------------------------------------------------------- environment
\* Time passes.
Tick ==
  /\ Running
  /\ now < MaxTime
  /\ now' = now + 1
  /\ ret' = NoReturn
  /\ again' = again
  /\ shut' = NoShut
  /\ UNCHANGED <<defaultPool, defaultInitOnce, conf, newPools, config, conns, reqConns, chans, openConn, closed,
                 cleanupOnce, stopCleanup, mu, conn, reaper, pc, arg, ctx,
                 held, closeOK>>

\* The server or the network drops a connection: IsClosing becomes true.
Die ==
  /\ Running
  /\ \E k \in ConnIds :
       /\ conn[k].state = "open"
       /\ conn' = [conn EXCEPT ![k].state = "dead"]
  /\ ret' = NoReturn
  /\ again' = again
  /\ shut' = NoShut
  /\ UNCHANGED <<defaultPool, defaultInitOnce, conf, newPools, config, conns, reqConns, chans, openConn, closed,
                 cleanupOnce, stopCleanup, mu, now, reaper, pc, arg, ctx,
                 held, closeOK>>

\* ------------------------------------------------------- the default pool
\* The configurations callers hand to Open: each required field empty or
\* not, and the numeric fields of ConfigInputs.
OpenInputs ==
  [Url : {"", "ldap://host"}, AdminDN : {"", "cn=admin"},
   AdminPass : {"", "secret"},
   MaxOpen : 1..MaxOpenCfg, MaxIdle : 1..MaxIdleCfg,
   ConnMaxLifetime : {0}, ConnMaxIdleTime : {0}]

\* Open(conf), first statement: the unsynchronised read of defaultPool.  A
\* read that races with the write in InitDefault may still see nil.
OpenEnter(self) ==
  /\ Running
  /\ pc[self] = "idle"
  /\ \E cf \in OpenInputs : conf' = [conf EXCEPT ![self] = cf]
  /\ \E sawNil \in BOOLEAN :
       /\ defaultPool = "nil" => sawNil
       /\ pc' = [pc EXCEPT ![self] = IF sawNil THEN "o_init" ELSE "o_get"]
  /\ ret' = NoReturn
  /\ shut' = NoShut
  /\ UNCHANGED <<defaultPool, defaultInitOnce, newPools, config, conns,
                 reqConns, chans, openConn, closed, cleanupOnce, stopCleanup,
                 mu, conn, now, reaper, arg, ctx, held, closeOK, again>>

\* Variant: Do runs its function whenever no other call is running it.
DoRunsAgain(once) == once # "running"

\* sync.Once.Do runs its function: this is the first call.
DoRuns(once) == once = "fresh"

\* InitDefault: defaultInitOnce.Do.  The first call runs NewPool(config); a
\* call made while that runs blocks in Do; a later call returns initErr,
\* which is nil, and Open goes on.
InitDefaultDo(self) ==
  /\ Running
  /\ pc[self] = "o_init"
  /\ IF DoRuns(defaultInitOnce)
     THEN /\ defaultInitOnce' = "running"
          /\ newPools' = newPools + 1
          /\ pc' = [pc EXCEPT ![self] = "n_validate"]
     ELSE /\ defaultInitOnce = "done"
          /\ pc' = [pc EXCEPT ![self] = "o_get"]
          /\ UNCHANGED <<defaultInitOnce, newPools>>
  /\ ret' = NoReturn
  /\ shut' = NoShut
  /\ UNCHANGED <<defaultPool, conf, config, conns, reqConns, chans, openConn,
                 closed, cleanupOnce, stopCleanup, mu, conn, now, reaper, arg,
                 ctx, held, closeOK, again>>

\* NewPool, up to the test connection: validateConfig, and for a valid
\* configuration setDefaults and the new LdapConnPool.  An error goes back
\* unchanged through InitDefault to Open's caller.
NewPoolValidate(self) ==
  /\ Running
  /\ pc[self] = "n_validate"
  /\ IF validateConfig(conf[self]) # "nil"
     THEN /\ defaultInitOnce' = "done"
          /\ pc' = [pc EXCEPT ![self] = "idle"]
          /\ conf' = [conf EXCEPT ![self] = NoConfig]
          /\ ret' = Return(self, "Open", NoConn, validateConfig(conf[self]))
          /\ UNCHANGED <<config, conns, reqConns, openConn, closed>>
     ELSE /\ config' = setDefaults(conf[self])
          /\ conns' = <<>>
          /\ reqConns' = [isNil |-> FALSE, keys |-> {}]
          /\ openConn' = 0
          /\ closed' = 0
          /\ pc' = [pc EXCEPT ![self] = "n_dial"]
          /\ ret' = NoReturn
          /\ UNCHANGED <<defaultInitOnce, conf>>
  /\ shut' = NoShut
  /\ UNCHANGED <<defaultPool, newPools, chans, cleanupOnce, stopCleanup, mu,
                 conn, now, reaper, arg, ctx, held, closeOK, again>>

\* NewPool, the test connection succeeds: createConnection counts it, its
\* socket is closed, the cleanup goroutine starts; InitDefault stores the
\* pool in defaultPool and Open goes on to GetConnection.
NewPoolDialOK(self) ==
  /\ Running
  /\ pc[self] = "n_dial"
  /\ openConn' = createConnectionCount(openConn)
  /\ reaper' = "running"
  /\ defaultPool' = "pool"
  /\ defaultInitOnce' = "done"
  /\ pc' = [pc EXCEPT ![self] = "o_get"]
  /\ ret' = NoReturn
  /\ shut' = NoShut
  /\ UNCHANGED <<conf, newPools, config, conns, reqConns, chans, closed,
                 cleanupOnce, stopCleanup, mu, conn, now, arg, ctx, held,
                 closeOK, again>>

\* NewPool, the test connection fails: the error goes back to Open's caller.
NewPoolDialFail(self) ==
  /\ Running
  /\ pc[self] = "n_dial"
  /\ defaultInitOnce' = "done"
  /\ pc' = [pc EXCEPT ![self] = "idle"]
  /\ conf' = [conf EXCEPT ![self] = NoConfig]
  /\ ret' = Return(self, "Open", NoConn, "ConnectFailed")
  /\ shut' = NoShut
  /\ UNCHANGED <<defaultPool, newPools, config, conns, reqConns, chans,
                 openConn, closed, cleanupOnce, stopCleanup, mu, conn, now,
                 reaper, arg, ctx, held, closeOK, again>>

\* Open, last statement: defaultPool.GetConnection(context.Background()),
\* up to GetConnection's load of the closed flag.  With defaultPool nil the
\* load dereferences a nil pool.
OpenGet(self) ==
  /\ Running
  /\ pc[self] = "o_get"
  /\ conf' = [conf EXCEPT ![self] = NoConfig]
  /\ IF defaultPool = "nil"
     THEN /\ pc' = [pc EXCEPT ![self] = "panic"]
          /\ ret' = NoReturn
          /\ UNCHANGED ctx
     ELSE IF GetSeesClosed(closed)
     THEN /\ pc' = [pc EXCEPT ![self] = "idle"]
          /\ ret' = Return(self, "GetConnection", NoConn, "ErrPoolClosed")
          /\ UNCHANGED ctx
     ELSE /\ pc' = [pc EXCEPT ![self] = "g_lock"]
          /\ ctx' = [ctx EXCEPT ![self] = "live"]
          /\ ret' = NoReturn
  /\ shut' = NoShut
  /\ UNCHANGED <<defaultPool, defaultInitOnce, newPools, config, conns,
                 reqConns, chans, openConn, closed, cleanupOnce, stopCleanup,
                 mu, conn, now, reaper, arg, held, closeOK, again>>

\* ---------------------------------------------------------- specifications
\* The steps of the pool's own goroutines: the callers and the reaper.
PoolStep ==
  \/ \E c \in Racing : GetEnter(c)
  \/ \E c \in Racing : GetLocked(c)
  \/ \E c \in Racing : CreateOK(c)
  \/ \E c \in Racing : CreateFail(c)
  \/ \E c \in Racing : CtxDone(c)
  \/ \E c \in Racing : WaitRecv(c)
  \/ \E c \in Racing : WaitCtx(c)
  \/ \E c \in Racing : WaitCancel(c)
  \/ \E c \in Racing : PutEnter(c)
  \/ \E c \in Racing : PutLocked(c)
  \/ \E c \in Racing : CloseEnter(c)
  \/ \E c \in Racing : CloseLocked(c)
  \/ Sweep
  \/ ReaperStop

Next ==
  \/ PoolStep
  \/ Tick
  \/ Die

\* Every caller releases a leased connection at most once.
Spec == Init /\ [][Next]_vars

\* Callers may also release a connection a second time; here no time
\* passes and no connection dies.
NextDouble ==
  \/ PoolStep
  \/ \E c \in Racing : PutAgain(c)

SpecDouble == Init /\ [][NextDouble]_vars

\* GetConnection(context.Background()) by a caller that holds no connection:
\* the context is never cancelled.
GetBackground(self) ==
  /\ held[self] = {}
  /\ GetEnter(self)
  /\ ctx'[self] # "Canceled"

\* The callers of TestConcurrentAccess: each gets a connection with a
\* context that is never cancelled and then releases it; the pool is not
\* closed, the factory does not fail, no time passes, no connection dies.
NextLive ==
  \/ \E c \in Callers : GetBackground(c)
  \/ \E c \in Callers : GetLocked(c)
  \/ \E c \in Callers : CreateOK(c)
  \/ \E c \in Callers : WaitRecv(c)
  \/ \E c \in Callers : PutEnter(c)
  \/ \E c \in Callers : PutLocked(c)

\* Scheduling: a goroutine that can take its next step takes it (the mutex
\* is free again after every critical section, a dial completes, a ready
\* receive is taken), and a caller that holds a connection releases it.
FairLive ==
  \A c \in Callers :
    /\ WF_vars(GetLocked(c))
    /\ WF_vars(CreateOK(c))
    /\ WF_vars(WaitRecv(c))
    /\ WF_vars(PutEnter(c))
    /\ WF_vars(PutLocked(c))

SpecLive == Init /\ [][NextLive]_vars /\ FairLive

\* Three callers that get, wait, give up waiting, release and close the
\* pool in any interleaving: two of them can wait while the third
\* releases.  The factory does not fail, no time passes, no connection dies.
NextHandoff ==
  \/ \E c \in Callers : GetEnter(c)
  \/ \E c \in Callers : GetLocked(c)
  \/ \E c \in Callers : CreateOK(c)
  \/ \E c \in Callers : CtxDone(c)
  \/ \E c \in Callers : WaitRecv(c)
  \/ \E c \in Callers : WaitCtx(c)
  \/ \E c \in Callers : WaitCancel(c)
  \/ \E c \in Callers : PutEnter(c)
  \/ \E c \in Callers : PutLocked(c)
  \/ \E c \in Callers : CloseEnter(c)
  \/ \E c \in Callers : CloseLocked(c)

SpecHandoff == Init /\ [][NextHandoff]_vars

\* A pool whose idle list has room for one connection more than the pools
\* of Init, so that the idle scan can meet several idle connections.
InitIdle ==
  /\ config \in {setDefaults([c EXCEPT !.MaxIdle = @ + 1]) :
                   c \in {d \in ConfigInputs : validateConfig(d) = "nil"}}
  /\ conns = <<>>
  /\ reqConns = [isNil |-> FALSE, keys |-> {}]
  /\ chans = [c \in Callers |-> NewChan]
  /\ openConn = NewPoolOpenConn
  /\ closed = 0
  /\ cleanupOnce = FALSE
  /\ stopCleanup = 0
  /\ mu = 0
  /\ conn = [k \in ConnIds |-> NoneConn]
  /\ now = 0
  /\ reaper = "running"
  /\ pc = [c \in Callers |-> "idle"]
  /\ arg = [c \in Callers |-> NoConn]
  /\ ctx = [c \in Callers |-> "none"]
  /\ held = [c \in Callers |-> {}]
  /\ ret = NoReturn
  /\ closeOK = 0
  /\ again = 0
  /\ shut = NoShut
  /\ defaultPool = "nil"
  /\ defaultInitOnce = "fresh"
  /\ conf = [c \in Callers |-> NoConfig]
  /\ newPools = 1

SpecIdle == InitIdle /\ [][Next]_vars

\* The timestamps and thresholds IsExpired is called with: timestamps up to
\* one more than the largest Duration apart, thresholds from a negative one
\* to the largest Duration.
Stamps     == 0..(MaxDuration + 1)
Thresholds == (0 - 1)..MaxDuration

\* A connection with any timestamps, at any time, under any thresholds.
InitExpired ==
  /\ config \in {[setDefaults(c) EXCEPT !.ConnMaxLifetime = l,
                                        !.ConnMaxIdleTime = i] :
                   c \in {d \in ConfigInputs : d.MaxOpen = 1},
                   l \in Thresholds, i \in Thresholds}
  /\ conn \in {[k \in ConnIds |->
                  IF k = 1 THEN [state |-> "open", createdAt |-> a,
                                 lastUsed |-> b]
                  ELSE NoneConn] : a \in Stamps, b \in Stamps}
  /\ now \in Stamps
  /\ conns = <<>>
  /\ reqConns = [isNil |-> FALSE, keys |-> {}]
  /\ chans = [c \in Callers |-> NewChan]
  /\ openConn = createConnectionCount(NewPoolOpenConn)
  /\ closed = 0
  /\ cleanupOnce = FALSE
  /\ stopCleanup = 0
  /\ mu = 0
  /\ reaper = "running"
  /\ pc = [c \in Callers |-> "idle"]
  /\ arg = [c \in Callers |-> NoConn]
  /\ ctx = [c \in Callers |-> "none"]
  /\ held = [c \in Callers |-> IF c = 1 THEN {1} ELSE {}]
  /\ ret = NoReturn
  /\ closeOK = 0
  /\ again = 0
  /\ shut = NoShut
  /\ defaultPool = "nil"
  /\ defaultInitOnce = "fresh"
  /\ conf = [c \in Callers |-> NoConfig]
  /\ newPools = 1

\* A caller calls IsExpired on the connection it holds, with the pool's
\* thresholds, as TestConnectionExpiration does.
CallIsExpired(self) ==
  /\ pc[self] = "idle"
  /\ ret = NoReturn
  /\ \E k \in held[self] :
       ret' = Return(self, "IsExpired", k,
                     IF IsExpired(conn[k], config.ConnMaxLifetime,
                                  config.ConnMaxIdleTime, now)
                     THEN "true" ELSE "false")
  /\ UNCHANGED <<defaultPool, defaultInitOnce, conf, newPools, config, conns,
                 reqConns, chans, openConn, closed, cleanupOnce, stopCleanup,
                 mu, conn, now, reaper, pc, arg, ctx, held, closeOK, again,
                 shut>>

NextExpired == \E c \in Callers : CallIsExpired(c)

SpecExpired == InitExpired /\ [][NextExpired]_vars

\* The process before any use of the default pool: defaultPool is nil, no
\* pool exists, no cleanup goroutine runs.
InitFacade ==
  /\ config = NoConfig
  /\ openConn = 0
  /\ reaper = "unborn"
  /\ newPools = 0
  /\ defaultPool = "nil"
  /\ defaultInitOnce = "fresh"
  /\ conf = [c \in Callers |-> NoConfig]
  /\ conns = <<>>
  /\ reqConns = [isNil |-> FALSE, keys |-> {}]
  /\ chans = [c \in Callers |-> NewChan]
  /\ closed = 0
  /\ cleanupOnce = FALSE
  /\ stopCleanup = 0
  /\ mu = 0
  /\ conn = [k \in ConnIds |-> NoneConn]
  /\ now = 0
  /\ pc = [c \in Callers |-> "idle"]
  /\ arg = [c \in Callers |-> NoConn]
  /\ ctx = [c \in Callers |-> "none"]
  /\ held = [c \in Callers |-> {}]
  /\ ret = NoReturn
  /\ closeOK = 0
  /\ again = 0
  /\ shut = NoShut

\* Callers that use only the legacy entry points: Open / GetLDAPConn to get
\* a connection of the default pool, PutLADPConn (LdapConn.Close) to release
\* it.  No time passes and no connection dies.
NextFacade ==
  \/ \E c \in Racing : OpenEnter(c)
  \/ \E c \in Racing : InitDefaultDo(c)
  \/ \E c \in Racing : NewPoolValidate(c)
  \/ \E c \in Racing : NewPoolDialOK(c)
  \/ \E c \in Racing : NewPoolDialFail(c)
  \/ \E c \in Racing : OpenGet(c)
  \/ \E c \in Racing : GetLocked(c)
  \/ \E c \in Racing : CreateOK(c)
  \/ \E c \in Racing : CreateFail(c)
  \/ \E c \in Racing : WaitRecv(c)
  \/ \E c \in Racing : PutEnter(c)
  \/ \E c \in Racing : PutLocked(c)

SpecFacade == InitFacade /\ [][NextFacade]_vars

\* A pool made by NewPool with MaxOpen = 0, used for a while by goroutines
\* that are not modelled: they hold up to MaxOutside connections, each
\* counted in openConn, and keep them.
InitUnbounded ==
  /\ config \in {setDefaults([c EXCEPT !.MaxOpen = 0]) : c \in ConfigInputs}
  /\ openConn \in {NewPoolOpenConn + n : n \in 0..MaxOutside}
  /\ conns = <<>>
  /\ reqConns = [isNil |-> FALSE, keys |-> {}]
  /\ chans = [c \in Callers |-> NewChan]
  /\ closed = 0
  /\ cleanupOnce = FALSE
  /\ stopCleanup = 0
  /\ mu = 0
  /\ conn = [k \in ConnIds |-> NoneConn]
  /\ now = 0
  /\ reaper = "running"
  /\ pc = [c \in Callers |-> "idle"]
  /\ arg = [c \in Callers |-> NoConn]
  /\ ctx = [c \in Callers |-> "none"]
  /\ held = [c \in Callers |-> {}]
  /\ ret = NoReturn
  /\ closeOK = 0
  /\ again = 0
  /\ shut = NoShut
  /\ defaultPool = "nil"
  /\ defaultInitOnce = "fresh"
  /\ conf = [c \in Callers |-> NoConfig]
  /\ newPools = 1

SpecUnbounded == InitUnbounded /\ [][NextLive]_vars

\* ------------------------------------------------------------- vocabulary
\* The socket of connection k exists and the pool has not closed it.
Live(k) == conn[k].state \in {"open", "dead"}

\* k is leased: a caller holds it or is in the middle of releasing it.
Leased(k) == \E c \in Callers : k \in held[c] \/ arg[c] = k

\* k was delivered into the channel of caller c and not received yet.
PendingFor(k, c) == k \in Range(chans[c].buf)

IdleCount    == Len(conns)
LeasedCount  == Cardinality({p \in Callers \X ConnIds : p[2] \in held[p[1]]})
                + Cardinality({c \in Callers : arg[c] # NoConn})
PendingCount == Cardinality({p \in Callers \X ConnIds : PendingFor(p[2], p[1])})

\* Connections that are idle, leased or delivered into a waiter's channel.
LiveCount == IdleCount + LeasedCount + PendingCount

\* No pool operation is in progress.
Quiescent == \A c \in Callers : pc[c] = "idle"

\* A Close call has returned nil.
CloseReturned == closeOK > 0

\* The pool state a call can change.
poolState == <<conns, reqConns, chans, openConn, closed, cleanupOnce,
               stopCleanup, conn>>

\* ------------------------------------------------------------------ claims

\* C1: on an open pool with MaxOpen = N > 0 the number of live connections
\* (idle + leased + delivered into a waiter's channel) is at most N in every
\* reachable state, and so is the openConn counter.
C1_MaxOpenRespected ==
  closed = 0 =>
    /\ LiveCount <= config.MaxOpen
    /\ openConn <= config.MaxOpen

\* C2: a pool with MaxOpen = N lets N callers hold connections at once: a
\* GetConnection call becomes a waiter only while N connections are out
\* (leased, being created for a caller, or on their way to a waiter), so
\* the first N calls on a fresh pool do not wait.
C2_WaitsOnlyWhenAllOut ==
  [][\A c \in Callers :
       (closed = 0 /\ pc[c] = "g_lock" /\ pc'[c] = "g_wait") =>
         LeasedCount + PendingCount
           + Cardinality({d \in Callers : pc[d] = "g_create"})
           >= config.MaxOpen]_vars

\* C3: no live connection is lost: each one is idle, or leased to a caller,
\* or pending in the channel of a waiter that is still waiting for it.
C3_NoOrphan ==
  \A k \in ConnIds :
    Live(k) =>
      \/ k \in Range(conns)
      \/ Leased(k)
      \/ \E c \in Callers : PendingFor(k, c) /\ pc[c] = "g_wait"

\* C4: a waiter whose context is done returns (nil, ctx.Err()); that return
\* changes neither openConn nor the idle list and leaks no connection
\* (nothing is left behind in the channel the caller abandons).
C4_CancelReturnsCtxErr ==
  [][\A c \in Callers :
       (pc[c] = "g_cancel" /\ pc'[c] = "idle") =>
         /\ ctx[c] \in {"Canceled", "DeadlineExceeded"}
         /\ ret' = Return(c, "GetConnection", NoConn, ctx[c])
         /\ openConn' = openConn
         /\ conns' = conns
         /\ chans[c].buf = <<>>]_vars

\* The part of C4 that does not involve the handoff race: the return value
\* and the frame of the cancellation branch.
CancelFrame ==
  [][\A c \in Callers :
       (pc[c] = "g_cancel" /\ pc'[c] = "idle") =>
         /\ ctx[c] \in {"Canceled", "DeadlineExceeded"}
         /\ ret' = Return(c, "GetConnection", NoConn, ctx[c])
         /\ openConn' = openConn
         /\ conns' = conns]_vars

\* C5: a waiter whose channel Close has closed returns the pool-closed
\* error, never a nil connection with a nil error.
C5_ClosedWaiterGetsErrPoolClosed ==
  [][\A c \in Callers :
       (pc[c] = "g_wait" /\ chans[c].closed /\ pc'[c] = "idle") =>
         ret' = Return(c, "GetConnection", NoConn, "ErrPoolClosed")]_vars

\* C6: on an open pool with no operation in progress, openConn equals the
\* number of live connections (idle + leased + delivered to a waiter); a
\* freshly created pool reports 0.
C6_OpenConnCountsLive ==
  (closed = 0 /\ Quiescent) => openConn = LiveCount

\* C7: releasing twice is a no-op the second time: a connection is never
\* twice in the idle list nor in two channels, and every decrement of
\* openConn goes with the closing of as many sockets that were still open
\* (so no connection is counted out twice).
NewlyClosed == {k \in ConnIds : conn[k].state # "closed" /\ conn'[k].state = "closed"}

C7_ReleaseIdempotent ==
  [][/\ \A i, j \in DOMAIN conns' : conns'[i] = conns'[j] => i = j
     /\ \A k \in ConnIds :
          Cardinality({c \in Callers : k \in Range(chans'[c].buf)}) <= 1
     /\ openConn' < openConn =>
          openConn - openConn' = Cardinality(NewlyClosed)]_vars

\* C8: once Close has returned, a GetConnection call that starts returns
\* (nil, ErrPoolClosed) in its first step and changes no pool state.
C8_GetAfterClose ==
  [][\A c \in Callers :
       (/\ CloseReturned
        /\ pc[c] = "idle"
        /\ \/ pc'[c] \in {"g_lock", "g_wait", "g_create", "g_cancel"}
           \/ ret'.who = c /\ ret'.op = "GetConnection") =>
         /\ ret' = Return(c, "GetConnection", NoConn, "ErrPoolClosed")
         /\ pc' = pc
         /\ held' = held
         /\ poolState' = poolState]_vars

C8_Witness ==
  /\ CloseReturned
  /\ ret.op = "GetConnection"
  /\ ret.err = "ErrPoolClosed"
  /\ ret.conn = NoConn

\* C9: shutdown happens exactly once: the closed flag is set exactly while
\* one Close call is performing the shutdown or has returned nil, no second
\* call returns nil, the stop signal is sent at most once, a Close that
\* returns ErrPoolClosed changes nothing, and the flag never goes back.
ClosesInProgress == Cardinality({c \in Callers : pc[c] = "c_lock"})

C9_CloseOnce ==
  [][/\ closeOK' + ClosesInProgress' = closed'
     /\ closeOK' <= 1
     /\ stopCleanup' <= 1
     /\ stopCleanup' = closed'
     /\ closed = 1 => closed' = 1
     /\ (ret'.op = "Close" /\ ret'.err = "ErrPoolClosed") =>
          /\ poolState' = poolState
          /\ pc' = pc
          /\ held' = held
          /\ closeOK' = closeOK]_vars

C9_Witness ==
  /\ closeOK = 1
  /\ ret.op = "Close"
  /\ ret.err = "ErrPoolClosed"

\* C10: the idle list never holds more than MaxIdle connections.
C10_IdleBounded == Len(conns) <= config.MaxIdle

\* A PutConnection has just completed on an open pool whose idle list is
\* full, and the released connection was not kept.
C10_Witness ==
  /\ closed = 0
  /\ ret.op = "PutConnection"
  /\ Len(conns) = config.MaxIdle
  /\ ret.conn \notin Range(conns)
  /\ conn[ret.conn].state = "closed"
  /\ ~IsExpired(conn[ret.conn], config.ConnMaxLifetime,
                config.ConnMaxIdleTime, now)

\* C11: a connection that is expired or dead when GetConnection pops it from
\* the idle list is not returned by that call: it is closed and discarded,
\* and a connection the call returns from the idle list was neither.
Expired(k) ==
  IsExpired(conn[k], config.ConnMaxLifetime, config.ConnMaxIdleTime, now)

C11_ExpiredNeverReturned ==
  [][\A c \in Callers :
       (pc[c] = "g_lock" /\ pc'[c] # "g_lock") =>
         /\ \A k \in Range(conns) \ Range(conns') :
              (Expired(k) \/ IsClosing(conn[k])) =>
                /\ ret'.conn # k
                /\ \A d \in Callers : k \notin held'[d]
                /\ conn'[k].state = "closed"
         /\ (ret'.conn # NoConn /\ ret'.conn \in Range(conns)) =>
              ~Expired(ret'.conn) /\ ~IsClosing(conn[ret'.conn])]_vars

\* The idle scan has just closed and discarded an expired connection.
C11_Witness ==
  /\ shut.by = "scan"
  /\ \E k \in shut.ids :
       /\ Expired(k)
       /\ conn[k].state = "closed"
       /\ k \notin Range(conns)
       /\ \A d \in Callers : k \notin held[d]

\* C12: if every caller that obtains a connection releases it and the pool
\* is never closed, no caller stays blocked forever: a GetConnection call
\* that waits with a context that is never cancelled is eventually handed a
\* connection, for every MaxOpen >= 1 and any number of callers.
C12_EveryWaiterServed ==
  \A c \in Callers :
    (pc[c] = "g_wait") ~> (pc[c] = "idle" /\ held[c] # {})

\* C13: the waiters form a fair queue: as long as connections keep being
\* released, a waiter whose context is never cancelled is eventually handed
\* one; PutConnection cannot pass it over forever in favour of others.
C13_NoWaiterPassedOver ==
  \A c \in Callers :
    ([]<>(ret.op = "PutConnection")) =>
      ((pc[c] = "g_wait") ~> (pc[c] = "idle" /\ held[c] # {}))

\* C14: a GetConnection call entered with a context that is already
\* cancelled returns (nil, the cancellation error) at once, whether or not an
\* idle connection or free capacity is there, and changes no pool state.
C14_CancelledOnEntry ==
  [][\A c \in Callers :
       (pc[c] = "g_lock" /\ ctx[c] = "Canceled" /\ pc'[c] # "g_lock") =>
         /\ ret' = Return(c, "GetConnection", NoConn, "Canceled")
         /\ held' = held
         /\ poolState' = poolState]_vars

\* C15: Close does not close the connections that are leased when it runs,
\* they stay as they were; a connection released after Close has returned is
\* closed by PutConnection, which decrements openConn by exactly one and
\* neither adds it to the idle list nor hands it to a waiter.
C15_LeasedSurviveClose ==
  [][/\ \A c \in Callers :
          (pc[c] = "c_lock" /\ pc'[c] = "idle") =>
            \A k \in ConnIds : Leased(k) => conn'[k] = conn[k]
     /\ \A c \in Callers : \A k \in held[c] :
          (CloseReturned /\ k \notin held'[c]) =>
            /\ conn'[k].state = "closed"
            /\ openConn' = openConn - 1
            /\ conns' = conns
            /\ chans' = chans
            /\ reqConns' = reqConns
            /\ ret' = Return(c, "PutConnection", k, "none")
            /\ pc' = pc]_vars

\* After Close has returned, a connection that was leased and open has just
\* been released and closed on the closed-pool path.
C15_Witness ==
  /\ CloseReturned
  /\ shut = Shut("PutClosed", {ret.conn})
  /\ ret.op = "PutConnection"
  /\ conn[ret.conn].state = "closed"
  /\ ret.conn \notin Range(conns)
  /\ \A c \in Callers : ~PendingFor(ret.conn, c)

\* C16: the openConn counter is never negative, in any interleaving of
\* GetConnection, PutConnection, the sweep and Close in which every leased
\* connection is released at most once.
C16_OpenConnNotNegative == openConn >= 0

\* Every connection the factory made has been closed, the last one just now
\* by a step that counts it out, and the counter is back at the value it had
\* when the pool was made.
C16_Witness ==
  /\ shut.by \in {"scan", "Put", "PutClosed", "cleanup"}
  /\ \A k \in ConnIds : conn[k].state = "closed"
  /\ openConn = NewPoolOpenConn

\* C17: a pool configured with MaxOpen = 0 is unbounded: GetConnection never
\* registers a waiter because of the open-connection count; when no idle
\* connection is usable it goes on to create a connection.
C17_MaxOpenZeroUnbounded ==
  [][\A c \in Callers :
       (pc[c] = "g_lock" /\ pc'[c] # "g_lock" /\ ret'.conn = NoConn) =>
         /\ pc'[c] = "g_create"
         /\ reqConns' = reqConns]_vars

\* C18: NewPool with an empty Url, an empty AdminDN or an empty AdminPass
\* returns no pool and ErrInvalidConfig at once, before any connection
\* attempt: no test connection is dialed, no cleanup goroutine is started,
\* openConn is not touched.
MissingField(c) == c.Url = "" \/ c.AdminDN = "" \/ c.AdminPass = ""

C18_InvalidConfigRejected ==
  [][\A c \in Callers :
       (pc[c] = "n_validate" /\ MissingField(conf[c])
          /\ pc'[c] # "n_validate") =>
         /\ ret' = Return(c, "Open", NoConn, "ErrInvalidConfig")
         /\ pc'[c] = "idle"
         /\ defaultPool' = "nil"
         /\ openConn' = openConn
         /\ reaper' = reaper
         /\ conn' = conn
         /\ config' = config
         /\ poolState' = poolState]_vars

\* NewPool has just refused a configuration: no pool, no counted
\* connection, no cleanup goroutine.
C18_Witness ==
  /\ ret.op = "Open"
  /\ ret.err = "ErrInvalidConfig"
  /\ ret.conn = NoConn
  /\ newPools = 1
  /\ defaultPool = "nil"
  /\ openConn = 0
  /\ reaper = "unborn"

\* C19: the default pool is created at most once: however many Open calls
\* run, one after the other or at once, NewPool runs at most one time; once
\* an initialization has succeeded the pool stays the same and the
\* configuration of every later call is ignored.
C19_DefaultPoolOnce ==
  [][/\ newPools' <= 1
     /\ defaultPool = "pool" =>
          /\ defaultPool' = "pool"
          /\ newPools' = newPools
          /\ config' = config
     /\ \A c \in Callers :
          pc'[c] = "g_lock" => defaultPool' = "pool"]_vars

\* With the default pool in place, a later Open call that passed another
\* configuration, here one NewPool would refuse, is about to use the pool.
C19_Witness ==
  /\ defaultPool = "pool"
  /\ newPools = 1
  /\ \E c \in Callers :
       /\ pc[c] = "o_get"
       /\ MissingField(conf[c])
       /\ conf[c].MaxOpen # config.MaxOpen
       /\ \E d \in Callers \ {c} : held[d] # {}

\* C20: when GetConnection decides to grow the pool it increments openConn
\* in the same critical section, before the factory is called: a connection
\* being dialed is already counted, so the capacity check of a concurrent
\* GetConnection sees the reservation.
C20_CountedBeforeDial ==
  [][\A c \in Callers :
       (pc[c] = "g_lock" /\ pc'[c] = "g_create") =>
         openConn' = openConn - Cardinality(shut'.ids) + 1]_vars

\* ------------------------------------------------------------------- C21
\* C21: a PutConnection that completes after Close has returned leaves the
\* released connection closed and the idle list empty, also when it read the
\* closed flag before Close ran.
C21_PutAfterCloseClosesIt ==
  [][(CloseReturned /\ ret'.op = "PutConnection")
       => (conn'[ret'.conn].state = "closed" /\ conns' = <<>>)]_vars

\* ------------------------------------------------------------------- C22
\* C22: a GetConnection that overlaps Close still ends normally: its
\* critical section never crashes on the waiter map Close has discarded, and
\* after Close has returned it never registers a waiter.
C22_GetSurvivesClose ==
  [][\A c \in Callers :
       (pc[c] = "g_lock" /\ pc'[c] # "g_lock" /\ closed = 1)
         => /\ pc'[c] # "panic"
            /\ (CloseReturned => pc'[c] # "g_wait")]_vars

\* ------------------------------------------------------------------- C23
\* C23: Close decrements openConn once for every idle connection it closes.
C23_CloseCountsIdleOut ==
  [][\A c \in Callers :
       (pc[c] = "c_lock" /\ pc'[c] = "idle")
         => openConn' = openConn - Len(conns)]_vars

\* ------------------------------------------------------------------- C24
\* C24, as the claim states it: a GetConnection whose factory call fails
\* leaves openConn, the idle list and the waiter map as they were before the
\* call, that is, neither its critical section on the way to the factory
\* nor its failure return changes them.
C24_FailedCallLeavesNoTrace ==
  [][\A c \in Callers :
       (\/ pc[c] = "g_lock" /\ pc'[c] = "g_create"
        \/ pc[c] = "g_create" /\ ret'.who = c /\ ret'.err = "ConnectFailed")
         => /\ openConn' = openConn
            /\ conns' = conns
            /\ reqConns' = reqConns]_vars

\* C24, amended: a factory failure returns a nil connection and the one
\* error, ends the call, and changes neither openConn, the idle list, the
\* waiter map nor any connection; what the call did change before reaching
\* the factory is its idle scan's doing: every idle connection was dead or
\* expired, and is now closed and counted out.
C24_FactoryFailure ==
  [][/\ (ret'.op = "GetConnection" /\ ret'.err = "ConnectFailed")
          => /\ ret'.conn = NoConn
             /\ pc[ret'.who] = "g_create"
             /\ pc'[ret'.who] = "idle"
             /\ openConn' = openConn
             /\ conns' = conns
             /\ reqConns' = reqConns
             /\ conn' = conn
             /\ held' = held
     /\ \A c \in Callers :
          (pc[c] = "g_lock" /\ pc'[c] = "g_create")
            => /\ reqConns' = reqConns
               /\ conns' = <<>>
               /\ openConn' = openConn - Len(conns)
               /\ \A k \in Range(conns) :
                    /\ ~Usable(conn[k], now)
                    /\ conn'[k].state = "closed"]_vars

\* A factory failure has been returned on a pool one of whose connections
\* has been closed.
C24_Witness ==
  /\ ret.op = "GetConnection"
  /\ ret.err = "ConnectFailed"
  /\ ret.conn = NoConn
  /\ closed = 0
  /\ \E k \in ConnIds : conn[k].state = "closed"

\* ------------------------------------------------------------------- C25
\* C25: a PutConnection whose critical section finds at least one waiter
\* on an open pool removes exactly one waiter from the map and puts the
\* released connection into that waiter's channel; the idle list and
\* openConn are unchanged, also when the idle list has room, and every
\* other waiter stays registered with its channel untouched.
C25_HandoffFrame ==
  [][\A c \in Callers :
       (pc[c] = "p_lock" /\ pc'[c] # "p_lock" /\ reqConns.keys # {} /\ closed = 0)
         => /\ \E w \in reqConns.keys :
                 /\ reqConns'.keys = reqConns.keys \ {w}
                 /\ chans'[w] = [chans[w] EXCEPT !.buf = <<arg[c]>>]
                 /\ \A o \in Callers \ {w} : chans'[o] = chans[o]
            /\ pc'[c] = "idle"
            /\ ret' = Return(c, "PutConnection", arg[c], "none")
            /\ conns' = conns
            /\ openConn' = openConn
            /\ conn'[arg[c]].state = conn[arg[c]].state]_vars

\* A release has just handed its connection to one of two waiters while the
\* idle list had room: that waiter has left the map with the connection in
\* its channel, the other one is still registered.
C25_Witness ==
  /\ ret.op = "PutConnection"
  /\ closed = 0
  /\ Len(conns) < config.MaxIdle
  /\ \E w \in Callers \ reqConns.keys :
       /\ pc[w] = "g_wait"
       /\ chans[w].buf = <<ret.conn>>
  /\ \E o \in reqConns.keys : pc[o] = "g_wait" /\ chans[o].buf = <<>>

\* ------------------------------------------------------------------- C26
\* C26: the handoff does not validate: a release that finds a waiter sends
\* the connection, in the state it is in, dead or expired included, and
\* never closes it; a GetConnection that returns from its idle scan or from
\* the factory returns a connection that is neither dead nor expired.
C26_HandoffUnvalidated ==
  [][\A c \in Callers :
       /\ (pc[c] = "p_lock" /\ pc'[c] # "p_lock" /\ reqConns.keys # {})
            => /\ conn'[arg[c]].state = conn[arg[c]].state
               /\ \E w \in reqConns.keys : chans'[w].buf = <<arg[c]>>
               /\ shut' = NoShut
               /\ openConn' = openConn
       /\ (pc[c] \in {"g_lock", "g_create"} /\ ret'.who = c /\ ret'.conn # NoConn)
            => Usable(conn'[ret'.conn], now')]_vars

\* A release has just handed a dead connection to a waiter: the connection
\* sits in the waiter's channel, not closed, and the waiter's GetConnection
\* will return it.
C26_Witness ==
  /\ ret.op = "PutConnection"
  /\ conn[ret.conn].state = "dead"
  /\ shut = NoShut
  /\ \E w \in Callers :
       /\ pc[w] = "g_wait"
       /\ ctx[w] = "live"
       /\ chans[w].buf = <<ret.conn>>

\* ------------------------------------------------------------------- C27
\* C27: a PutConnection whose critical section finds no waiter on an open
\* pool appends the connection to the idle list, leaving it open and
\* openConn unchanged, if the list holds fewer than MaxIdle connections and
\* the connection is neither dead nor expired; otherwise it closes the
\* connection, decrements openConn by one and leaves the idle list as it is.
C27_PutWithoutWaiter ==
  [][\A c \in Callers :
       (pc[c] = "p_lock" /\ pc'[c] # "p_lock" /\ reqConns.keys = {} /\ closed = 0)
         => LET k == arg[c] IN
              /\ pc'[c] = "idle"
              /\ reqConns' = reqConns
              /\ chans' = chans
              /\ IF /\ Len(conns) < config.MaxIdle
                    /\ ~IsClosing(conn[k])
                    /\ ~IsExpired(conn[k], config.ConnMaxLifetime,
                                  config.ConnMaxIdleTime, now)
                 THEN /\ conns' = Append(conns, k)
                      /\ conn'[k].state = "open"
                      /\ openConn' = openConn
                      /\ shut' = NoShut
                 ELSE /\ conns' = conns
                      /\ conn'[k].state = "closed"
                      /\ openConn' = openConn - 1
                      /\ shut' = Shut("Put", {k})]_vars

\* A release on an open pool without waiters has just closed a connection
\* that was neither dead nor expired, because the idle list was full.
C27_Witness ==
  /\ ret.op = "PutConnection"
  /\ closed = 0
  /\ reqConns.keys = {}
  /\ shut = Shut("Put", {ret.conn})
  /\ Len(conns) = config.MaxIdle
  /\ now - conn[ret.conn].lastUsed <= config.ConnMaxIdleTime
  /\ now - conn[ret.conn].createdAt <= config.ConnMaxLifetime

\* ------------------------------------------------------------------- C28
\* C28: the critical section of GetConnection pops idle connections from
\* the tail; every popped connection that is dead or expired is closed and
\* counted out of openConn and the scan goes on; the first one that is
\* neither is returned with lastUsed refreshed and the rest of the list is
\* left alone; if none passes, the list is empty and the call goes on to
\* create or to wait, and returns no error.
C28_ScanFromTail ==
  [][\A c \in Callers :
       (pc[c] = "g_lock" /\ pc'[c] # "g_lock")
         => LET n      == Len(conns)
                m      == Len(conns')
                got    == IF ret'.who = c THEN ret'.conn ELSE NoConn
                popped == {conns[i] : i \in (m + 1)..n}
                bad    == popped \ {got}
            IN  /\ m <= n
                /\ conns' = SubSeq(conns, 1, m)
                /\ \A k \in bad : /\ ~Usable(conn[k], now)
                                  /\ conn'[k].state = "closed"
                /\ openConn' = openConn - Cardinality(bad)
                /\ shut' = Shut("scan", bad)
                /\ IF pc'[c] = "idle"
                   THEN /\ ret' = Return(c, "GetConnection", got, "nil")
                        /\ m < n
                        /\ got = conns[m + 1]
                        /\ Usable(conn[got], now)
                        /\ conn'[got] = [conn[got] EXCEPT !.lastUsed = now]
                        /\ got \in held'[c]
                   ELSE /\ ret' = NoReturn
                        /\ m = 0
                        /\ pc'[c] \in {"g_create", "g_wait", "panic"}]_vars

\* An idle scan has just closed a dead or expired connection at the tail of
\* the idle list, gone on, and returned the connection beneath it.
C28_Witness ==
  /\ ret.op = "GetConnection"
  /\ ret.err = "nil"
  /\ ret.conn # NoConn
  /\ shut.by = "scan"
  /\ shut.ids # {}
  /\ conn[ret.conn].lastUsed = now
  /\ conn[ret.conn].state = "open"

\* ------------------------------------------------------------------- C29
\* C29: PutConnection never blocks on the handoff and never sends on a
\* closed channel: no waiter's channel ever holds more than the one
\* connection it has room for, no release is stuck in its send with the
\* mutex held, and every critical section of a release ends the call.
C29_SendNeverBlocks ==
  /\ \A c \in Callers :
       /\ pc[c] # "p_blocked"
       /\ Len(chans[c].buf) <= ChanCap
       /\ (pc[c] = "p_lock" /\ mu = 0 /\ Running) => ENABLED PutLocked(c)
  /\ mu = 0
  /\ \A w \in reqConns.keys : chans[w].buf = <<>> /\ ~chans[w].closed

\* A release has just put its connection into the channel of a waiter that
\* has already committed to its cancellation branch: the send went through
\* and the release returned.
C29_Witness ==
  /\ ret.op = "PutConnection"
  /\ \E w \in Callers :
       /\ pc[w] = "g_cancel"
       /\ chans[w].buf = <<ret.conn>>
       /\ w \notin reqConns.keys

\* ------------------------------------------------------------------- C30
\* C30: the waiter map holds only keys of GetConnection calls that have not
\* returned; a key enters the map only in the critical section of a call
\* that found openConn >= MaxOpen; and a connection is sent only into the
\* channel of a call that has not returned.
C30_OnlyWaitersInMap ==
  [][/\ \A w \in reqConns.keys : pc[w] \in {"g_wait", "g_cancel"}
     /\ \A w \in reqConns'.keys \ reqConns.keys :
          /\ pc[w] = "g_lock"
          /\ pc'[w] = "g_wait"
          /\ openConn' >= config.MaxOpen
     /\ \A w \in Callers :
          (ret'.who = w /\ ret'.op = "GetConnection") => w \notin reqConns'.keys
     /\ \A w \in Callers :
          (chans'[w].buf # chans[w].buf /\ chans'[w].buf # <<>>)
            => pc[w] \in {"g_wait", "g_cancel"}]_vars

\* A waiting call has just returned its context's error and its key is
\* gone from the map, in which another call is still registered.
C30_Witness ==
  /\ ret.op = "GetConnection"
  /\ ret.err \in {"Canceled", "DeadlineExceeded"}
  /\ pc[ret.who] = "idle"
  /\ ret.who \notin reqConns.keys
  /\ reqConns.keys # {}

\* ------------------------------------------------------------------- C31
\* C31: on an open pool, while a waiter is registered the idle list is
\* empty and openConn has reached MaxOpen.
C31_WaitOnlyWhenSaturated ==
  (closed = 0 /\ reqConns.keys # {})
    => (conns = <<>> /\ openConn >= config.MaxOpen)

\* A caller waits on an open pool whose only connection another caller
\* holds.
C31_Witness ==
  /\ closed = 0
  /\ \E w \in reqConns.keys : pc[w] = "g_wait" /\ chans[w].buf = <<>>
  /\ \E c \in Callers : \E k \in held[c] : conn[k].state = "open"
  /\ conns = <<>>

\* ------------------------------------------------------------------- C32
\* C32: when each lease is released at most once, every connection has one
\* owner: it is not twice in the idle list, not both in the pool (idle or
\* in a waiter's channel) and leased, and not leased to two callers.
C32_OneOwner ==
  /\ \A i, j \in 1..Len(conns) : conns[i] = conns[j] => i = j
  /\ \A k \in ConnIds :
       Cardinality({c \in Callers : k \in held[c]})
       + Cardinality({c \in Callers : arg[c] = k})
       + Cardinality({i \in 1..Len(conns) : conns[i] = k})
       + Cardinality({c \in Callers : k \in Range(chans[c].buf)}) <= 1

\* One connection is leased, a second one is idle, and a release of a third
\* party is not involved: each has its one owner.
C32_Witness ==
  /\ Len(conns) = 1
  /\ \E c \in Callers : \E k \in held[c] : k # conns[1] /\ conn[k].state = "open"
  /\ conn[conns[1]].state = "open"

\* ------------------------------------------------------------------- C33
\* C33: a sweep of the reaper removes from the idle list exactly the
\* connections that are dead or expired, closes them and decrements
\* openConn by their number; the other idle connections stay in their
\* order, and leased connections, the waiter map, the waiters' channels and
\* the closed flag are left as they are.
C33_SweepFrame ==
  [][Sweep =>
       LET gone == {k \in Range(conns) : ~Usable(conn[k], now)} IN
         /\ conns' = SelectSeq(conns, LAMBDA k : Usable(conn[k], now))
         /\ \A k \in gone : conn'[k].state = "closed"
         /\ \A k \in ConnIds \ gone : conn'[k] = conn[k]
         /\ openConn' = openConn - Cardinality(gone)
         /\ Len(conns') = Len(conns) - Cardinality(gone)
         /\ shut' = Shut("cleanup", gone)
         /\ UNCHANGED <<held, arg, reqConns, chans, closed, pc>>]_vars

\* A sweep has just closed one idle connection and kept another.
C33_Witness ==
  /\ shut.by = "cleanup"
  /\ shut.ids # {}
  /\ conns # <<>>
  /\ \A k \in shut.ids : conn[k].state = "closed"
  /\ \A k \in Range(conns) : conn[k].state = "open"

\* ------------------------------------------------------------------- C34
\* C34: once Close has returned, no sweep of the reaper changes the pool
\* any more, and the stop signal is issued once however many Close calls
\* run.
C34_ReaperQuietAfterClose ==
  [][/\ (CloseReturned /\ Sweep) => UNCHANGED <<conns, conn, openConn>>
     /\ stopCleanup' <= 1]_vars

\* ------------------------------------------------------------------- C35
\* The call sites of conn.Conn.Close() that lie between lcp.mu.Lock() and
\* the matching Unlock: the idle scan, the end of PutConnection, the sweep
\* and Close.  The close in PutConnection's closed-pool branch comes before
\* the Lock.
ClosesUnderLock == {"scan", "Put", "cleanup", "Close"}

\* C35: no socket is closed by a goroutine that holds the pool's mutex.
C35_NoCloseUnderLock == shut.ids # {} => shut.by \notin ClosesUnderLock

\* ------------------------------------------------------------------- C36
\* C36: when each lease is released at most once, the idle count Stats
\* returns is at most the open count it returns: Len(conns) <= openConn.
C36_IdleAtMostOpen == Len(conns) <= openConn

\* Nothing is leased and one connection is idle: Stats returns idle = 1 and
\* open = 2, the idle connection and the test connection of NewPool.
C36_Witness ==
  /\ Len(conns) = 1
  /\ openConn = 2
  /\ conn[conns[1]].state = "open"
  /\ closed = 0
  /\ \A c \in Callers : pc[c] = "idle" /\ held[c] = {}

\* ------------------------------------------------------------------- C37
\* C37: no call of Open goes on to use a default pool that was never
\* created: after an initialization that failed, a later Open reports an
\* error.
C37_OpenNeverUsesNilPool ==
  [][\A c \in Callers :
       pc[c] = "o_get" => (defaultPool # "nil" /\ pc'[c] # "panic")]_vars

\* ------------------------------------------------------------------- C38
\* C38, as the claim states it: for all timestamps and thresholds IsExpired
\* returns true exactly when maxLifetime > 0 and now - createdAt >
\* maxLifetime, or maxIdleTime > 0 and now - lastUsed > maxIdleTime.
C38_IsExpiredExact ==
  ret.op = "IsExpired" =>
    LET lc == conn[ret.conn] IN
      (ret.err = "true")
        <=> \/ (config.ConnMaxLifetime > 0
                /\ now - lc.createdAt > config.ConnMaxLifetime)
            \/ (config.ConnMaxIdleTime > 0
                /\ now - lc.lastUsed > config.ConnMaxIdleTime)

\* The timestamps of a connection are no more than the largest Duration
\* away from the present.
WithinDuration(lc) ==
  /\ now - lc.createdAt <= MaxDuration
  /\ now - lc.lastUsed <= MaxDuration

\* C38, amended: the same, for timestamps whose distance from now fits in a
\* Duration; a threshold of 0 or less disables its test, and an age equal
\* to its threshold is not expired.
C38_IsExpiredInRange ==
  (ret.op = "IsExpired" /\ WithinDuration(conn[ret.conn])) =>
    LET lc == conn[ret.conn] IN
      /\ (ret.err = "true")
           <=> \/ (config.ConnMaxLifetime > 0
                   /\ now - lc.createdAt > config.ConnMaxLifetime)
               \/ (config.ConnMaxIdleTime > 0
                   /\ now - lc.lastUsed > config.ConnMaxIdleTime)
      /\ (config.ConnMaxLifetime <= 0 /\ config.ConnMaxIdleTime <= 0)
           => ret.err = "false"
      /\ (/\ now - lc.createdAt <= config.ConnMaxLifetime
          /\ now - lc.lastUsed <= config.ConnMaxIdleTime)
           => ret.err = "false"

\* IsExpired has returned false for a connection whose age equals the
\* lifetime and whose idle time equals the idle threshold.
C38_Witness ==
  /\ ret.op = "IsExpired"
  /\ ret.err = "false"
  /\ config.ConnMaxLifetime > 0
  /\ config.ConnMaxIdleTime > 0
  /\ now - conn[ret.conn].createdAt = config.ConnMaxLifetime
  /\ now - conn[ret.conn].lastUsed = config.ConnMaxIdleTime

====
